---- MODULE Spec2Model ----
(***************************************************************************)
(* Model of the OCR contact-card tools (jmbernabotto/ocr-mistral).          *)
(*                                                                         *)
(* Python strings are TLA+ strings; a character is a string of length 1.   *)
(* An optional value (None or a string) is a sequence of length 0 or 1.    *)
(* Regular expressions are modelled by what Python's re does on the line:  *)
(* leftmost match, greedy quantifiers, backtracking.                       *)
(***************************************************************************)
EXTENDS Integers, Sequences, FiniteSets, TLC

VARIABLES
    uploaded_files,   \* main: the files of the batch, each [name, ocr]; ocr is what
                      \*   client.ocr.process does when given the file's bytes
    results,          \* main: the list of result records
    main_pc,          \* main: "ready", "loop" (in the for loop), "done" (the loop is
                      \*   over) or "exported" (the run of the script is over)
    json_data,        \* main: None, or the string export_to_json returned
    txt_data,         \* main: None, or the string export_to_txt returned
    corpus,           \* the name of the set of texts extract_personal_info is given
    ocr_text,         \* extract_personal_info: its argument
    lines,            \* extract_personal_info: ocr_text.split('\n')
    i,                \* extract_personal_info: 1-based index of the next line
    info,             \* extract_personal_info: the record being filled
    pc,               \* extract_personal_info: "idle", "loop" or "returned"
    prev,             \* the caller: None during the first run on a text, the record
                      \*   of the first run during and after the second
    documents,        \* ocr-streamlit: st.session_state.documents
    chat_history,     \* ocr-streamlit: st.session_state.chat_history, pairs
                      \*   <<question, response>>
    client,           \* ocr-streamlit: st.session_state.client, None or the client
                      \*   built from a key
    api_key_valid,    \* ocr-streamlit: st.session_state.api_key_valid
    api_key,          \* ocr-streamlit: the key typed in the sidebar in the last run
    event,            \* ocr-streamlit: the button pressed in the last run
    status_log,       \* ocr-streamlit: what upload_documents displayed for each file
                      \*   of the batch in this run, pairs <<name, outcome>>
    session_pc,       \* ocr-streamlit: "start" (top of run) or "tabs" (the tabs)
    ocr_pages,        \* process_pdf_ocr: ocr_response.pages, each [index, markdown]
    pdf_result,       \* process_pdf_ocr: None or the record returned
    full_text_list,   \* process_pdf_ocr: the local list of that name
    page_texts,       \* add_text_to_pdf: the list aligned on the pages of the PDF
    pdf_pc,           \* pdf-ocr-streamlit: "idle", "processed" or "enriched"
    text_arg,         \* create_pdf_from_text: its argument extracted_text
    chars_per_page,   \* create_pdf_from_text: the local of that name
    remaining_text,   \* create_pdf_from_text: the local of that name
    text_chunks,      \* create_pdf_from_text: the local of that name
    chunk_pc          \* create_pdf_from_text: "entry", "loop" or "done"

vars == <<uploaded_files, results, main_pc, json_data, txt_data,
          corpus, ocr_text, lines, i, info, pc, prev,
          documents, chat_history, client, api_key_valid, api_key, event,
          status_log, session_pc,
          ocr_pages, pdf_result, full_text_list, page_texts, pdf_pc,
          text_arg, chars_per_page, remaining_text, text_chunks, chunk_pc>>

export_vars == <<json_data, txt_data>>
main_vars == <<uploaded_files, results, main_pc, json_data, txt_data>>
engine_vars == <<corpus, ocr_text, lines, i, info, pc, prev>>
session_vars == <<documents, chat_history, client, api_key_valid, api_key, event,
                  status_log, session_pc>>
pdf_vars == <<ocr_pages, pdf_result, full_text_list, page_texts, pdf_pc>>
chunk_vars == <<text_arg, chars_per_page, remaining_text, text_chunks, chunk_pc>>
fiches_vars == <<main_vars, engine_vars>>

----------------------------------------------------------------------------
(* Bounds of the model *)

MaxLines == 2
MaxFiles == 2

----------------------------------------------------------------------------
(* Python values *)

None == <<>>
Some(s) == <<s>>
\* Python truthiness of an optional string: None and '' are falsy
Truthy(x) == x # None /\ x # Some("")

----------------------------------------------------------------------------
(* Characters and string primitives *)

Digits == {"0", "1", "2", "3", "4", "5", "6", "7", "8", "9"}
Whitespace == {" ", "\t", "\n"}
UpperAscii == {"A", "B", "C", "D", "E", "F", "G", "H", "I", "J", "K", "L", "M",
               "N", "O", "P", "Q", "R", "S", "T", "U", "V", "W", "X", "Y", "Z"}
LowerAscii == {"a", "b", "c", "d", "e", "f", "g", "h", "i", "j", "k", "l", "m",
               "n", "o", "p", "q", "r", "s", "t", "u", "v", "w", "x", "y", "z"}
UpperChars == UpperAscii \cup {"É", "È"}
LowerChars == LowerAscii \cup {"é", "è"}
\* \w of a Python 3 str pattern
WordChars == UpperChars \cup LowerChars \cup Digits \cup {"_"}

Min(a, b) == IF a <= b THEN a ELSE b

Ch(s, p) == SubSeq(s, p, p)
From(s, p) == SubSeq(s, p, Len(s))

\* s[p:].startswith(t)
StartsAt(s, p, t) == p >= 1 /\ p + Len(t) - 1 <= Len(s) /\ SubSeq(s, p, p + Len(t) - 1) = t

\* t in s
Contains(s, t) == \E p \in 1..(Len(s) - Len(t) + 1) : StartsAt(s, p, t)

\* the first position at or after p that is past the end or holds a character outside C
RunEnd(s, p, C) ==
    CHOOSE q \in p..(Len(s) + 1) :
        /\ \A r \in p..(q - 1) : Ch(s, r) \in C
        /\ q = Len(s) + 1 \/ Ch(s, q) \notin C

\* the number of consecutive characters of C from position p on
RunLen(s, p, C) == RunEnd(s, p, C) - p

\* str.strip()
strip(s) ==
    LET keep == {p \in 1..Len(s) : Ch(s, p) \notin Whitespace}
    IN  IF keep = {} THEN ""
        ELSE SubSeq(s, CHOOSE p \in keep : \A q \in keep : p <= q,
                       CHOOSE p \in keep : \A q \in keep : p >= q)

\* str.lower() of one character
LowerCh(c) ==
    CASE c = "A" -> "a" [] c = "B" -> "b" [] c = "C" -> "c" [] c = "D" -> "d"
      [] c = "E" -> "e" [] c = "F" -> "f" [] c = "G" -> "g" [] c = "H" -> "h"
      [] c = "I" -> "i" [] c = "J" -> "j" [] c = "K" -> "k" [] c = "L" -> "l"
      [] c = "M" -> "m" [] c = "N" -> "n" [] c = "O" -> "o" [] c = "P" -> "p"
      [] c = "Q" -> "q" [] c = "R" -> "r" [] c = "S" -> "s" [] c = "T" -> "t"
      [] c = "U" -> "u" [] c = "V" -> "v" [] c = "W" -> "w" [] c = "X" -> "x"
      [] c = "Y" -> "y" [] c = "Z" -> "z" [] c = "É" -> "é" [] c = "È" -> "è"
      [] OTHER -> c

RECURSIVE lower(_)
\* str.lower()
lower(s) == IF s = "" THEN "" ELSE LowerCh(Ch(s, 1)) \o lower(From(s, 2))

RECURSIVE RemoveChars(_, _)
\* re.sub(r'[C]+', '', s)
RemoveChars(s, C) ==
    IF s = "" THEN ""
    ELSE (IF Ch(s, 1) \in C THEN "" ELSE Ch(s, 1)) \o RemoveChars(From(s, 2), C)

RECURSIVE split(_, _)
\* s.split(sep) for a separator of one character
split(s, sep) ==
    LET at == {p \in 1..Len(s) : Ch(s, p) = sep}
    IN  IF at = {} THEN <<s>>
        ELSE LET p == CHOOSE x \in at : \A y \in at : x <= y
             IN  <<SubSeq(s, 1, p - 1)>> \o split(From(s, p + 1), sep)

\* the first position at or after p that is past the end or holds a character of C
RunEndNot(s, p, C) ==
    CHOOSE q \in p..(Len(s) + 1) :
        /\ \A r \in p..(q - 1) : Ch(s, r) \notin C
        /\ q = Len(s) + 1 \/ Ch(s, q) \in C

RECURSIVE words(_)
\* str.split() without argument: the whitespace-separated words
words(s) ==
    LET a == RunEnd(s, 1, Whitespace)
        e == RunEndNot(s, a, Whitespace)
    IN  IF a > Len(s) THEN <<>>
        ELSE <<SubSeq(s, a, e - 1)>> \o words(From(s, e))

RECURSIVE join(_, _)
\* sep.join(parts)
join(parts, sep) ==
    IF parts = <<>> THEN ""
    ELSE IF Len(parts) = 1 THEN parts[1]
    ELSE parts[1] \o sep \o join(Tail(parts), sep)

\* str.isupper(): some cased character, and no lowercase one
isupper(s) ==
    /\ \E p \in 1..Len(s) : Ch(s, p) \in UpperChars
    /\ \A p \in 1..Len(s) : Ch(s, p) \notin LowerChars

RECURSIVE replace(_, _, _)
\* str.replace(old, new), old not empty
replace(s, old, new) ==
    IF s = "" THEN ""
    ELSE IF StartsAt(s, 1, old) THEN new \o replace(From(s, Len(old) + 1), old, new)
    ELSE Ch(s, 1) \o replace(From(s, 2), old, new)

----------------------------------------------------------------------------
(* extract_personal_info: telephone numbers (lines 154-162) *)

DigitOrSpace == Digits \cup Whitespace

\* the position after a match of (?:\+33\s*|0)[\d\s]{9,14} that starts at p; 0 if none.
\* \s* is greedy but gives characters back to [\d\s]{9,14} when fewer than 9 follow.
TelMatchEnd(s, p) ==
    IF StartsAt(s, p, "+33")
    THEN LET a == p + 3
             W == RunLen(s, a, Whitespace)
             R == RunLen(s, a, DigitOrSpace)
             sp == Min(W, R - 9)
         IN  IF R >= 9 THEN a + sp + Min(R - sp, 14) ELSE 0
    ELSE IF StartsAt(s, p, "0")
    THEN LET R == RunLen(s, p + 1, DigitOrSpace)
         IN  IF R >= 9 THEN p + 1 + Min(R, 14) ELSE 0
    ELSE 0

RECURSIVE TelFindFrom(_, _)
TelFindFrom(s, p) ==
    IF p > Len(s) THEN <<>>
    ELSE LET e == TelMatchEnd(s, p)
         IN  IF e = 0 THEN TelFindFrom(s, p + 1)
             ELSE <<SubSeq(s, p, e - 1)>> \o TelFindFrom(s, e)

\* re.findall(r'(?:\+33\s*|0)[\d\s]{9,14}', line_clean)
tel_matches(line_clean) == TelFindFrom(line_clean, 1)

\* tel_clean = re.sub(r'\s+', '', tel)
tel_clean(tel) == RemoveChars(tel, Whitespace)

\* len(tel_clean) >= 10
TelAccepted(tel) == Len(tel_clean(tel)) >= 10

\* 'fixe' in line_clean.lower() or not info['telephone_fixe']
TelGoesToFixe(inf, line_clean) ==
    Contains(lower(line_clean), "fixe") \/ ~Truthy(inf.telephone_fixe)

\* 'mobile' in line_clean.lower() or '06' in tel_clean or '07' in tel_clean
TelGoesToMobile(line_clean, tel) ==
    \/ Contains(lower(line_clean), "mobile")
    \/ Contains(tel_clean(tel), "06")
    \/ Contains(tel_clean(tel), "07")

\* TelStore with the test of the mobile slot before the test of the landline slot
TelStoreMobileFirst(inf, line_clean, tel) ==
    IF ~TelAccepted(tel) THEN inf
    ELSE IF TelGoesToMobile(line_clean, tel)
    THEN [inf EXCEPT !.telephone_mobile = Some(tel_clean(tel))]
    ELSE IF TelGoesToFixe(inf, line_clean)
    THEN [inf EXCEPT !.telephone_fixe = Some(tel_clean(tel))]
    ELSE inf

\* the body of "for tel in tel_matches"
TelStore(inf, line_clean, tel) ==
    IF ~TelAccepted(tel) THEN inf
    ELSE IF TelGoesToFixe(inf, line_clean)
    THEN [inf EXCEPT !.telephone_fixe = Some(tel_clean(tel))]
    ELSE IF TelGoesToMobile(line_clean, tel)
    THEN [inf EXCEPT !.telephone_mobile = Some(tel_clean(tel))]
    ELSE inf

RECURSIVE TelLoop(_, _, _)
TelLoop(inf, line_clean, tels) ==
    IF tels = <<>> THEN inf
    ELSE TelLoop(TelStore(inf, line_clean, Head(tels)), line_clean, Tail(tels))

Telephones(inf, line_clean) == TelLoop(inf, line_clean, tel_matches(line_clean))

----------------------------------------------------------------------------
(* extract_personal_info: postal code and city (lines 148-152) *)

\* [A-Z\s\-]
CityChars == UpperAscii \cup Whitespace \cup {"-"}

\* the number of digits group(1) of (\d{5})\s+([A-Z\s\-]+) captures
CpDigits == 5

\* (\d{5})\s+([A-Z\s\-]+) matches at p: the digits, at least one whitespace, and
\* then a city character; \s+ gives its last whitespace to the city group when
\* what follows the whitespace is no city character.
CpMatchAt(s, p) ==
    /\ p + CpDigits - 1 <= Len(s)
    /\ \A r \in p..(p + CpDigits - 1) : Ch(s, r) \in Digits
    /\ LET W == RunLen(s, p + CpDigits, Whitespace)
           q == p + CpDigits + W
       IN  /\ W >= 1
           /\ (q <= Len(s) /\ Ch(s, q) \in CityChars) \/ W >= 2

\* re.search(r'(\d{5})\s+([A-Z\s\-]+)', line_clean): the start of the leftmost match, 0 if none
cp_ville_match(line_clean) ==
    LET at == {p \in 1..Len(line_clean) : CpMatchAt(line_clean, p)}
    IN  IF at = {} THEN 0 ELSE CHOOSE p \in at : \A q \in at : p <= q

\* CpGroup1 with a group one character too long
CpGroup1Wide(s, p) == SubSeq(s, p, p + CpDigits)

\* cp_ville_match.group(1)
CpGroup1(s, p) == SubSeq(s, p, p + CpDigits - 1)

\* cp_ville_match.group(2)
CpGroup2(s, p) ==
    LET q == RunEnd(s, p + CpDigits, Whitespace)
    IN  IF q <= Len(s) /\ Ch(s, q) \in CityChars
        THEN SubSeq(s, q, RunEnd(s, q, CityChars) - 1)
        ELSE Ch(s, q - 1)

CodePostalVille(inf, line_clean) ==
    LET p == cp_ville_match(line_clean)
    IN  IF p = 0 THEN inf
        ELSE [inf EXCEPT !.code_postal = Some(CpGroup1(line_clean, p)),
                         !.ville = Some(strip(CpGroup2(line_clean, p)))]

----------------------------------------------------------------------------
(* extract_personal_info: name (lines 113-128) *)

\* the length of a match of (Mme|M\.|Mlle) at the start of s, 0 if none
TitleLen(s) ==
    IF StartsAt(s, 1, "Mme") THEN 3
    ELSE IF StartsAt(s, 1, "M.") THEN 2
    ELSE IF StartsAt(s, 1, "Mlle") THEN 4
    ELSE 0

RECURSIVE SubTitles(_)
\* re.sub(r'(Mme|M\.|Mlle)\s*', '', s)
SubTitles(s) ==
    IF s = "" THEN ""
    ELSE IF TitleLen(s) > 0
    THEN SubTitles(From(s, RunEnd(s, TitleLen(s) + 1, Whitespace)))
    ELSE Ch(s, 1) \o SubTitles(From(s, 2))

RECURSIVE SubParens(_)
\* re.sub(r'\([^)]*\)', '', s)
SubParens(s) ==
    IF s = "" THEN ""
    ELSE IF Ch(s, 1) = "(" /\ Contains(s, ")")
    THEN SubParens(From(s, RunEndNot(s, 2, {")"}) + 1))
    ELSE Ch(s, 1) \o SubParens(From(s, 2))

NameTrigger(line_clean) ==
    \/ Contains(line_clean, "PLANTEGENET")
    \/ Contains(line_clean, "Mme")
    \/ Contains(line_clean, "M.")

name_parts(line_clean) == strip(SubParens(SubTitles(line_clean)))

NomComplet(inf, line_clean) ==
    LET np == name_parts(line_clean)
        parts == words(np)
        n == Len(parts)
    IN  IF ~NameTrigger(line_clean) \/ np = "" THEN inf
        ELSE IF n < 2 THEN [inf EXCEPT !.nom_complet = Some(np)]
        ELSE IF isupper(parts[n])
        THEN [inf EXCEPT !.nom_complet = Some(np),
                         !.nom = Some(parts[n]),
                         !.prenom = Some(join(SubSeq(parts, 1, n - 1), " "))]
        ELSE [inf EXCEPT !.nom_complet = Some(np),
                         !.prenom = Some(parts[1]),
                         !.nom = Some(join(Tail(parts), " "))]

----------------------------------------------------------------------------
(* extract_personal_info: profession (lines 130-134) *)

\* the start of group(1) of (?:Profession\s*:?\s*|Employés?\s+)(.+), re.IGNORECASE,
\* for a match that starts at p; 0 if there is none. When the optional parts have
\* eaten the rest of the line they give its last character back to (.+).
ProfGroupAt(s, p) ==
    LET ls == lower(s)
        n == Len(s)
    IN  IF StartsAt(ls, p, "profession")
        THEN LET a == p + 10
                 w1 == RunEnd(s, a, Whitespace)
                 c == IF w1 <= n /\ Ch(s, w1) = ":" THEN w1 + 1 ELSE w1
                 w2 == RunEnd(s, c, Whitespace)
             IN  IF a > n THEN 0 ELSE IF w2 <= n THEN w2 ELSE n
        ELSE IF StartsAt(ls, p, "employé")
        THEN LET a == IF StartsAt(ls, p + 7, "s") THEN p + 8 ELSE p + 7
                 W == RunLen(s, a, Whitespace)
             IN  IF W = 0 THEN 0
                 ELSE IF a + W <= n THEN a + W
                 ELSE IF W >= 2 THEN n
                 ELSE 0
        ELSE 0

\* prof_match: the start of group(1) of the leftmost match, 0 if none
prof_match(line_clean) ==
    LET at == {p \in 1..Len(line_clean) : ProfGroupAt(line_clean, p) > 0}
    IN  IF at = {} THEN 0
        ELSE ProfGroupAt(line_clean, CHOOSE p \in at : \A q \in at : p <= q)

ProfTrigger(line_clean) ==
    Contains(line_clean, "Profession") \/ Contains(line_clean, "Employé")

Profession(inf, line_clean) ==
    IF ProfTrigger(line_clean) /\ prof_match(line_clean) > 0
    THEN [inf EXCEPT !.profession = Some(strip(From(line_clean, prof_match(line_clean))))]
    ELSE inf

----------------------------------------------------------------------------
(* extract_personal_info: marital situation (lines 136-140) *)

SituationWords == <<"celibataire", "marie", "divorce", "veuf", "pacse">>

\* one of CELIBATAIRE|MARIE|DIVORCE|VEUF|PACSE, re.IGNORECASE, starts at p
SitWordAt(s, p) == \E k \in 1..Len(SituationWords) : StartsAt(lower(s), p, SituationWords[k])

SitWordLen(s, p) ==
    Len(SituationWords[CHOOSE k \in 1..Len(SituationWords) :
                           StartsAt(lower(s), p, SituationWords[k])])

\* sit_match.group(1) of (?:Situation\s*:?\s*)?(CELIBATAIRE|...), as <<>> or <<group>>:
\* the leftmost match ends with the leftmost occurrence of one of the words
sit_match(line_clean) ==
    LET at == {p \in 1..Len(line_clean) : SitWordAt(line_clean, p)}
        k == CHOOSE p \in at : \A q \in at : p <= q
    IN  IF at = {} THEN None
        ELSE Some(SubSeq(line_clean, k, k + SitWordLen(line_clean, k) - 1))

SitTrigger(line_clean) ==
    \/ Contains(line_clean, "Situation")
    \/ Contains(line_clean, "CELIBATAIRE")
    \/ Contains(line_clean, "MARIE")

Situation(inf, line_clean) ==
    IF SitTrigger(line_clean) /\ sit_match(line_clean) # None
    THEN [inf EXCEPT !.situation = sit_match(line_clean)]
    ELSE inf

----------------------------------------------------------------------------
(* extract_personal_info: address (lines 142-146) *)

StreetWords == <<"rue", "avenue", "boulevard", "place", "impasse", "chemin">>

\* a street word, re.IGNORECASE, at p with at least one character after it
StreetWordAt(s, p) ==
    \E k \in 1..Len(StreetWords) :
        StartsAt(lower(s), p, StreetWords[k]) /\ p + Len(StreetWords[k]) <= Len(s)

\* the start of group(1) of (?:Adresse\s*:?\s*)?(.+(?:rue|...).+), re.IGNORECASE;
\* 0 if no match. The match starts at 1; group(1) runs to the end of the line. The
\* optional prefix is dropped, whole or in part, when a street word would not
\* otherwise follow at least one character of the group.
addr_match(line_clean) ==
    LET s == line_clean
        n == Len(s)
        at == {p \in 2..n : StreetWordAt(s, p)}
        K == CHOOSE p \in at : \A q \in at : p >= q
        w1 == RunEnd(s, 8, Whitespace)
        c == IF w1 <= n /\ Ch(s, w1) = ":" THEN w1 + 1 ELSE w1
        w2 == RunEnd(s, c, Whitespace)
    IN  IF at = {} THEN 0
        ELSE IF StartsAt(lower(s), 1, "adresse") /\ K - 1 >= 8 THEN Min(w2, K - 1)
        ELSE 1

AddrTrigger(line_clean) ==
    Contains(line_clean, "Adresse") \/ Contains(lower(line_clean), "rue")

Adresse(inf, line_clean) ==
    IF AddrTrigger(line_clean) /\ addr_match(line_clean) > 0
    THEN [inf EXCEPT !.adresse = Some(strip(From(line_clean, addr_match(line_clean))))]
    ELSE inf

----------------------------------------------------------------------------
(* extract_personal_info: e-mail (lines 164-167) *)

\* [\w\.-]
EmailChars == WordChars \cup {".", "-"}

\* the dots of the domain that starts after the "@" at q which [\w\.-]+\.\w+ can
\* use: inside the run of e-mail characters, not its first character, and
\* followed by a word character
EmailDots(s, q) ==
    {d \in (q + 2)..(RunEnd(s, q + 1, EmailChars) - 1) :
        Ch(s, d) = "." /\ d + 1 <= Len(s) /\ Ch(s, d + 1) \in WordChars}

\* "@" positions with a local part before and a usable domain after
EmailAts(s) ==
    {q \in 2..Len(s) : Ch(s, q) = "@" /\ Ch(s, q - 1) \in EmailChars /\ EmailDots(s, q) # {}}

\* email_match.group(0) of [\w\.-]+@[\w\.-]+\.\w+, as <<>> or <<group>>
email_match(line_clean) ==
    LET s == line_clean
        ats == EmailAts(s)
        q == CHOOSE x \in ats : \A y \in ats : x <= y
        p == CHOOSE x \in 1..(q - 1) :
                 /\ \A r \in x..(q - 1) : Ch(s, r) \in EmailChars
                 /\ x = 1 \/ Ch(s, x - 1) \notin EmailChars
        d == CHOOSE x \in EmailDots(s, q) : \A y \in EmailDots(s, q) : x >= y
    IN  IF ats = {} THEN None
        ELSE Some(SubSeq(s, p, RunEnd(s, d + 1, WordChars) - 1))

Email(inf, line_clean) ==
    IF email_match(line_clean) # None THEN [inf EXCEPT !.email = email_match(line_clean)]
    ELSE inf

----------------------------------------------------------------------------
(* extract_personal_info: authorizations and legal status (lines 169-181) *)

\* AutorisationSms writing the key of the e-mail authorization
AutorisationSmsWrongKey(inf, line_clean) ==
    IF Contains(line_clean, "SMS autorisé") THEN [inf EXCEPT !.autorisation_email = TRUE]
    ELSE inf

AutorisationSms(inf, line_clean) ==
    IF Contains(line_clean, "SMS autorisé") THEN [inf EXCEPT !.autorisation_sms = TRUE]
    ELSE inf

AutorisationEmail(inf, line_clean) ==
    IF Contains(line_clean, "Email interdit") THEN [inf EXCEPT !.autorisation_email = FALSE]
    ELSE IF Contains(line_clean, "Email autorisé") THEN [inf EXCEPT !.autorisation_email = TRUE]
    ELSE inf

AutorisationCourrier(inf, line_clean) ==
    IF Contains(line_clean, "Courrier autorisé")
    THEN [inf EXCEPT !.autorisation_courrier = TRUE]
    ELSE inf

Autorisations(inf, line_clean) ==
    AutorisationCourrier(AutorisationEmail(AutorisationSms(inf, line_clean), line_clean),
                         line_clean)

Legal(inf, line_clean) ==
    IF Contains(line_clean, "LEGAL") THEN [inf EXCEPT !.legal = Some("LEGAL")] ELSE inf

----------------------------------------------------------------------------
(* extract_personal_info: dates (lines 183-188) *)

\* \d{2}/\d{2}/\d{4} matches at p
DateAt(s, p) ==
    /\ p + 9 <= Len(s)
    /\ \A r \in {p, p + 1, p + 3, p + 4, p + 6, p + 7, p + 8, p + 9} : Ch(s, r) \in Digits
    /\ Ch(s, p + 2) = "/" /\ Ch(s, p + 5) = "/"

RECURSIVE DateFindFrom(_, _)
DateFindFrom(s, p) ==
    IF p > Len(s) THEN <<>>
    ELSE IF DateAt(s, p) THEN <<SubSeq(s, p, p + 9)>> \o DateFindFrom(s, p + 10)
    ELSE DateFindFrom(s, p + 1)

\* re.findall(r'\d{2}/\d{2}/\d{4}', line_clean)
date_matches(line_clean) == DateFindFrom(line_clean, 1)

\* d[key] = value on a dict
DictSet(d, key, value) == [x \in DOMAIN d \cup {key} |-> IF x = key THEN value ELSE d[x]]

EmptyDict == [x \in {} |-> ""]

RECURSIVE DateLoop(_, _, _)
DateLoop(d, context, dates) ==
    IF dates = <<>> THEN d
    ELSE DateLoop(DictSet(d, SubSeq(context, 1, Min(30, Len(context))), Head(dates)),
                  context, Tail(dates))

\* n is the 1-based index of the line in ls: nothing is stored for the last line,
\* and the key is the start of the line before (of '' for the first line)
Dates(inf, ls, n) ==
    IF n < Len(ls)
    THEN [inf EXCEPT !.dates = DateLoop(inf.dates, IF n > 1 THEN ls[n - 1] ELSE "",
                                        date_matches(strip(ls[n])))]
    ELSE inf

----------------------------------------------------------------------------
(* extract_personal_info: the record and the loop over the lines (lines 82-190) *)

\* NewInfo with '' in place of None for the telephone numbers
NewInfoPlaceholder(text) ==
    [nom_complet |-> None, prenom |-> None, nom |-> None, profession |-> None,
     situation |-> None, adresse |-> None, code_postal |-> None, ville |-> None,
     telephone_fixe |-> Some(""), telephone_mobile |-> Some(""), email |-> None,
     autorisation_sms |-> FALSE, autorisation_email |-> FALSE,
     autorisation_courrier |-> FALSE, legal |-> None,
     dates |-> EmptyDict, identifiants |-> EmptyDict, raw_text |-> text]

\* info = {...} (lines 87-106)
NewInfo(text) ==
    [nom_complet |-> None, prenom |-> None, nom |-> None, profession |-> None,
     situation |-> None, adresse |-> None, code_postal |-> None, ville |-> None,
     telephone_fixe |-> None, telephone_mobile |-> None, email |-> None,
     autorisation_sms |-> FALSE, autorisation_email |-> FALSE,
     autorisation_courrier |-> FALSE, legal |-> None,
     dates |-> EmptyDict, identifiants |-> EmptyDict, raw_text |-> text]

\* one iteration of "for i, line in enumerate(lines)", on line n (1-based) of ls
LoopBody(inf, ls, n) ==
    LET line_clean == strip(ls[n])
        a == NomComplet(inf, line_clean)
        b == Profession(a, line_clean)
        c == Situation(b, line_clean)
        d == Adresse(c, line_clean)
        e == CodePostalVille(d, line_clean)
        f == Telephones(e, line_clean)
        g == Email(f, line_clean)
        h == Autorisations(g, line_clean)
        k == Legal(h, line_clean)
    IN  Dates(k, ls, n)

RECURSIVE LoopFrom(_, _, _)
LoopFrom(inf, ls, n) ==
    IF n > Len(ls) THEN inf ELSE LoopFrom(LoopBody(inf, ls, n), ls, n + 1)

\* extract_personal_info(ocr_text), as one call
extract_personal_info(text) == LoopFrom(NewInfo(text), split(text, "\n"), 1)

----------------------------------------------------------------------------
(* extract_clean_text (lines 239-266) *)

\* An OCR response: pages is the list of the pages' markdown (None when a page has
\* no text), repr is str(ocr_response).

\* "," \s* "images=" follows position q
ImagesFollows(s, q) ==
    /\ q + 1 <= Len(s) /\ Ch(s, q + 1) = ","
    /\ StartsAt(s, RunEnd(s, q + 2, Whitespace), "images=")

\* re.search(r'markdown="(.*?)"(?=,\s*images=)', response_str, re.DOTALL).group(1),
\* as <<>> or <<group>>: the leftmost markdown=", then the nearest closing quote
\* that ,\s*images= follows
markdown_match(response_str) ==
    LET s == response_str
        closing(p) == {q \in (p + 10)..Len(s) : Ch(s, q) = "\"" /\ ImagesFollows(s, q)}
        at == {p \in 1..Len(s) : StartsAt(s, p, "markdown=\"") /\ closing(p) # {}}
        p0 == CHOOSE p \in at : \A x \in at : p <= x
        q0 == CHOOSE q \in closing(p0) : \A x \in closing(p0) : q <= x
    IN  IF at = {} THEN None ELSE Some(SubSeq(s, p0 + 10, q0 - 1))

\* .replace('\\n', '\n').replace('\\t', '\t').replace('\\"', '"').replace('\\\\', '\\')
clean_text(markdown_content) ==
    replace(replace(replace(replace(markdown_content, "\\n", "\n"), "\\t", "\t"),
                    "\\\"", "\""), "\\\\", "\\")

NoneTypeError == "'NoneType' object has no attribute 'strip'"

extract_clean_text(ocr_response) ==
    IF ocr_response.pages # <<>>
    THEN IF ocr_response.pages[1] = None
         THEN "[Erreur: " \o NoneTypeError \o "]"
         ELSE strip(ocr_response.pages[1][1])
    ELSE IF markdown_match(ocr_response.repr) # None
    THEN strip(clean_text(markdown_match(ocr_response.repr)[1]))
    ELSE "[Extraction échouée]"

----------------------------------------------------------------------------
(* process_single_image (lines 192-237) *)

\* the file name without its extension
Stem(filename) ==
    LET dots == {p \in 1..Len(filename) : Ch(filename, p) = "."}
    IN  IF dots = {} THEN filename
        ELSE SubSeq(filename, 1, (CHOOSE p \in dots : \A q \in dots : p >= q) - 1)

\* SuccessRecord with the extension of the file name dropped
SuccessRecordStem(filename, extracted_text, now) ==
    [filename |-> Stem(filename), status |-> "success", raw_text |-> extracted_text,
     structured_data |-> extract_personal_info(extracted_text),
     error |-> None, timestamp |-> now]

\* the return of the try block; now stands for datetime.now()
SuccessRecord(filename, extracted_text, now) ==
    [filename |-> filename, status |-> "success", raw_text |-> extracted_text,
     structured_data |-> extract_personal_info(extracted_text),
     error |-> None, timestamp |-> now]

\* ErrorRecord that returns the default-filled record of an empty text
ErrorRecordWithData(filename, e, now) ==
    [filename |-> filename, status |-> "error", raw_text |-> "",
     structured_data |-> extract_personal_info(""), error |-> Some(e), timestamp |-> now]

\* the return of the except block
ErrorRecord(filename, e, now) ==
    [filename |-> filename, status |-> "error", raw_text |-> "",
     structured_data |-> EmptyDict, error |-> Some(e), timestamp |-> now]

\* file.ocr.raises is None, or the message of the exception the OCR call raises
process_single_image(file, now) ==
    IF file.ocr.raises # None
    THEN ErrorRecord(file.name, file.ocr.raises[1], now)
    ELSE SuccessRecord(file.name, extract_clean_text(file.ocr), now)

----------------------------------------------------------------------------
(* export_to_json (lines 268-284) *)

\* sum(1 for r in results if r['status'] == 'success')
success_count(res) == Cardinality({k \in 1..Len(res) : res[k].status = "success"})

\* the keys of info, in the order of lines 87-106
InfoKeys ==
    <<"nom_complet", "prenom", "nom", "profession", "situation", "adresse",
      "code_postal", "ville", "telephone_fixe", "telephone_mobile", "email",
      "autorisation_sms", "autorisation_email", "autorisation_courrier", "legal",
      "dates", "identifiants", "raw_text">>

FlagKeys == {"autorisation_sms", "autorisation_email", "autorisation_courrier"}
DictKeys == {"dates", "identifiants"}

RECURSIVE Repeat(_, _)
\* s * n
Repeat(s, n) == IF n <= 0 THEN "" ELSE s \o Repeat(s, n - 1)

RECURSIVE JsonEscape(_)
\* the body of a JSON string, with ensure_ascii=False
JsonEscape(s) ==
    IF s = "" THEN ""
    ELSE LET c == Ch(s, 1)
         IN  (CASE c = "\"" -> "\\\""
                [] c = "\\" -> "\\\\"
                [] c = "\n" -> "\\n"
                [] c = "\t" -> "\\t"
                [] OTHER -> c) \o JsonEscape(From(s, 2))

JsonString(s) == "\"" \o JsonEscape(s) \o "\""

RECURSIVE JsonItems(_, _, _)
\* the items of a dict of strings, one per line at the given indentation; the
\* model's dicts do not keep the order of insertion, the items come in some order
JsonItems(d, keys, indent) ==
    IF keys = {} THEN ""
    ELSE LET k == CHOOSE x \in keys : TRUE
         IN  Repeat(" ", indent) \o JsonString(k) \o ": " \o JsonString(d[k])
             \o (IF keys = {k} THEN "" ELSE ",") \o "\n"
             \o JsonItems(d, keys \ {k}, indent)

\* json.dumps of a dict of strings that is the value of a key at the given indentation
JsonDict(d, indent) ==
    IF DOMAIN d = {} THEN "{}"
    ELSE "{\n" \o JsonItems(d, DOMAIN d, indent + 2) \o Repeat(" ", indent) \o "}"

\* json.dumps of the value of key k of info
JsonValue(data, k, indent) ==
    IF k \in FlagKeys THEN (IF data[k] THEN "true" ELSE "false")
    ELSE IF k \in DictKeys THEN JsonDict(data[k], indent)
    ELSE IF k = "raw_text" THEN JsonString(data[k])
    ELSE IF data[k] = None THEN "null"
    ELSE JsonString(data[k][1])

RECURSIVE JsonData(_, _, _)
\* the items of 'data': every key of structured_data from the n-th on
JsonData(data, n, indent) ==
    IF n > Len(InfoKeys) THEN ""
    ELSE Repeat(" ", indent) \o JsonString(InfoKeys[n]) \o ": "
         \o JsonValue(data, InfoKeys[n], indent)
         \o (IF n = Len(InfoKeys) THEN "" ELSE ",") \o "\n"
         \o JsonData(data, n + 1, indent)

\* {'filename': result['filename'], 'data': result['structured_data']}, as an
\* element of the list 'results'
JsonResult(result) ==
    "    {\n"
    \o "      \"filename\": " \o JsonString(result.filename) \o ",\n"
    \o "      \"data\": {\n"
    \o JsonData(result.structured_data, 1, 8)
    \o "      }\n"
    \o "    }"

\* the records of res with status 'success', in order
Successes(res) == SelectSeq(res, LAMBDA r : r.status = "success")

RECURSIVE JsonResults(_)
JsonResults(succ) ==
    IF succ = <<>> THEN ""
    ELSE JsonResult(Head(succ)) \o (IF Len(succ) = 1 THEN "" ELSE ",") \o "\n"
         \o JsonResults(Tail(succ))

\* json.dumps(export_data, indent=2, ensure_ascii=False); now is datetime.now()
export_to_json(res, now) ==
    "{\n"
    \o "  \"extraction_date\": " \o JsonString(now.isoformat) \o ",\n"
    \o "  \"total_files\": " \o ToString(Len(res)) \o ",\n"
    \o "  \"successful\": " \o ToString(success_count(res)) \o ",\n"
    \o "  \"results\": "
    \o (IF Successes(res) = <<>> THEN "[]"
        ELSE "[\n" \o JsonResults(Successes(res)) \o "  ]") \o "\n"
    \o "}"

----------------------------------------------------------------------------
(* export_to_txt (lines 286-318) *)

\* The pictograms of the report are outside the characters a string of this
\* module can hold; each is written as its code point.
IconFile == "<U+1F4C4>"
IconName == "<U+1F464>"
IconProfession == "<U+1F4BC>"
IconSituation == "<U+1F46B>"
IconAddress == "<U+1F4CD>"
IconFixe == "<U+260E><U+FE0F>"
IconMobile == "<U+1F4F1>"
IconEmail == "<U+2709><U+FE0F>"

\* if data.get(key): output.append(label + data[key])
TxtField(data, key, label) ==
    IF Truthy(data[key]) THEN <<label \o data[key][1]>> ELSE <<>>

\* the lines appended to output for one result with status 'success'
TxtBlock(result) ==
    LET data == result.structured_data
    IN  <<"\n" \o IconFile \o " Fichier: " \o result.filename, Repeat("-", 40)>>
        \o TxtField(data, "nom_complet", IconName \o " Nom complet: ")
        \o TxtField(data, "profession", IconProfession \o " Profession: ")
        \o TxtField(data, "situation", IconSituation \o " Situation: ")
        \o TxtField(data, "adresse", IconAddress \o " Adresse: ")
        \o (IF Truthy(data.adresse) /\ Truthy(data.code_postal) /\ Truthy(data.ville)
            THEN <<"   " \o data.code_postal[1] \o " " \o data.ville[1]>>
            ELSE <<>>)
        \o TxtField(data, "telephone_fixe", IconFixe \o "  Fixe: ")
        \o TxtField(data, "telephone_mobile", IconMobile \o " Mobile: ")
        \o TxtField(data, "email", IconEmail \o "  Email: ")
        \o <<"">>

RECURSIVE TxtBlocks(_)
TxtBlocks(succ) ==
    IF succ = <<>> THEN <<>> ELSE TxtBlock(Head(succ)) \o TxtBlocks(Tail(succ))

\* "\n".join(output); now is datetime.now()
export_to_txt(res, now) ==
    join(<<Repeat("=", 80), "EXTRACTION OCR - " \o now.strftime, Repeat("=", 80)>>
         \o TxtBlocks(Successes(res)), "\n")

----------------------------------------------------------------------------
(* The inputs of the model *)

\* the values of datetime.now() at the export: its isoformat() and its
\* strftime('%d/%m/%Y %H:%M')
Instants ==
    {[isoformat |-> "2026-11-03T14:05:09.123456", strftime |-> "03/11/2026 14:05"]}

FileNames == {"a.png", "b.png"}

Response(pages, repr) == [raises |-> None, pages |-> pages, repr |-> repr]

OcrOutcomes ==
    {[raises |-> Some("429 Too Many Requests"), pages |-> <<>>, repr |-> ""],
     Response(<<Some("")>>, ""),
     Response(<<Some(" \n ")>>, ""),
     Response(<<Some("Mme DUPONT Anne\n06 12 34 56 78\n")>>, ""),
     Response(<<Some("Tel fixe: 01 23 45 67 89\n75013 PARIS"), Some("page 2")>>, ""),
     Response(<<None>>, ""),
     Response(<<>>, "pages=[] markdown=\"Tel\\n+33 6 12 34 56 78\", images=[]"),
     Response(<<>>, "pages=[] model='mistral-ocr-latest'")}

Files == [name : FileNames, ocr : OcrOutcomes]

RECURSIVE SeqsUpTo(_, _)
\* the sequences of 1 to n elements of S
SeqsUpTo(S, n) ==
    IF n = 0 THEN {}
    ELSE LET shorter == SeqsUpTo(S, n - 1)
         IN  {<<x>> : x \in S} \cup shorter \cup {Append(t, x) : t \in shorter, x \in S}

\* the lines of the texts the extraction is run on
PhoneLines ==
    {"01 23 45 67 89",
     "06 12 34 56 78",
     "+33 6 12 34 56 78",
     "Tel fixe: 04 56 78 90 12",
     "Mobile: 07 11 22 33 44",
     "012 34 56 78 90",
     "01 23 45 67 8",
     "75013 PARIS - FRANCE",
     "12 rue des Lilas",
     ""}

\* the texts of 1 to MaxLines lines of L
TextsOf(L) == {join(t, "\n") : t \in SeqsUpTo(L, MaxLines)}

PhoneTexts == TextsOf(PhoneLines)

\* lines about the address: street lines, postal-code lines, both on one line
AddressLines ==
    {"12 rue des Lilas",
     "Adresse : 3 avenue Foch",
     "75013 PARIS - FRANCE",
     "69001 LYON",
     "12 rue des Lilas 75013 PARIS",
     "Mme DUPONT Anne",
     ""}

AddressTexts == TextsOf(AddressLines)

\* lines about the authorizations: one phrase, several phrases, another case
ConsentLines ==
    {"SMS autorisé",
     "Email interdit",
     "Email autorisé",
     "email autorisé",
     "Courrier autorisé",
     "SMS autorisé  Email interdit  Courrier autorisé",
     "Mme DUPONT Anne",
     ""}

ConsentTexts == TextsOf(ConsentLines)

\* lines about the persons of the card: titles and names in both orders, a class
IdentityLines ==
    {"Mme DUPONT Anne",
     "M. DUPONT Jean",
     "M. Jean DUPONT",
     "Mme PLANTEGENET Claire (mère)",
     "Mme LEROY",
     "Classe : 3E1 - Général",
     "Classe : 4A2",
     ""}

IdentityTexts == TextsOf(IdentityLines)

\* lines about the profession, the marital situation and the legal status
StatusLines ==
    {"Profession : Cadre",
     "profession : ouvrier",
     "Employé : banque",
     "Situation : CELIBATAIRE",
     "MARIE",
     "DIVORCE",
     "Représentant LEGAL",
     "Représentant légal",
     ""}

StatusTexts == TextsOf(StatusLines)

\* the texts of the corpus named c
Texts(c) ==
    CASE c = "phones" -> PhoneTexts
      [] c = "address" -> AddressTexts
      [] c = "consent" -> ConsentTexts
      [] c = "identity" -> IdentityTexts
      [] c = "status" -> StatusTexts
      [] OTHER -> {}

\* the batches of 1 to MaxFiles files
Batches == SeqsUpTo(Files, MaxFiles)

----------------------------------------------------------------------------
(* The state machine *)

(* ocr-streamlit.py __init__ (lines 22-29): the session state of a new session;
   the sidebar input is empty and no button was pressed *)
SessionStart ==
    /\ documents = <<>>
    /\ chat_history = <<>>
    /\ client = None
    /\ api_key_valid = FALSE
    /\ api_key = ""
    /\ event = "none"
    /\ status_log = <<>>
    /\ session_pc = "start"

(* pdf-ocr-streamlit.py: no PDF was processed yet *)
PdfStart ==
    /\ ocr_pages = <<>>
    /\ pdf_result = None
    /\ full_text_list = <<>>
    /\ page_texts = <<>>
    /\ pdf_pc = "idle"

(* ocr-png.py: create_pdf_from_text was not called yet *)
ChunkStart ==
    /\ text_arg = ""
    /\ chars_per_page = 1
    /\ remaining_text = ""
    /\ text_chunks = <<>>
    /\ chunk_pc = "idle"

Init ==
    /\ uploaded_files = <<>>
    /\ results = <<>>
    /\ main_pc = "ready"
    /\ json_data = None
    /\ txt_data = None
    /\ corpus = "phones"
    /\ ocr_text = ""
    /\ lines = <<>>
    /\ i = 1
    /\ info = NewInfo("")
    /\ pc = "idle"
    /\ prev = None
    /\ SessionStart
    /\ PdfStart
    /\ ChunkStart

\* Init with the engine given the texts of the corpus named c
InitCorpus(c) ==
    /\ uploaded_files = <<>>
    /\ results = <<>>
    /\ main_pc = "ready"
    /\ json_data = None
    /\ txt_data = None
    /\ corpus = c
    /\ ocr_text = ""
    /\ lines = <<>>
    /\ i = 1
    /\ info = NewInfo("")
    /\ pc = "idle"
    /\ prev = None
    /\ SessionStart
    /\ PdfStart
    /\ ChunkStart

InitAddress == InitCorpus("address")
InitConsent == InitCorpus("consent")
InitIdentity == InitCorpus("identity")
InitStatus == InitCorpus("status")

(* main (lines 376-412): the user picks files and presses the button *)
Launch ==
    /\ main_pc = "ready"
    /\ \E batch \in Batches : uploaded_files' = batch
    /\ results' = <<>>
    /\ main_pc' = "loop"
    /\ UNCHANGED export_vars
    /\ UNCHANGED engine_vars
    /\ UNCHANGED <<session_vars, pdf_vars, chunk_vars>>

(* ProcessFile with no try/except in process_single_image: the exception of the
   OCR call leaves the loop and is caught by main's own except (line 534) *)
ProcessFileNoCatch ==
    /\ main_pc = "loop"
    /\ Len(results) < Len(uploaded_files)
    /\ IF uploaded_files[Len(results) + 1].ocr.raises # None
       THEN main_pc' = "exported" /\ UNCHANGED <<uploaded_files, results>>
       ELSE /\ results' = Append(results,
                    process_single_image(uploaded_files[Len(results) + 1], Len(results)))
            /\ UNCHANGED <<uploaded_files, main_pc>>
    /\ UNCHANGED export_vars
    /\ UNCHANGED engine_vars
    /\ UNCHANGED <<session_vars, pdf_vars, chunk_vars>>

(* main (lines 396-409): one iteration of "for i, uploaded_file in enumerate(...)" *)
ProcessFile ==
    /\ main_pc = "loop"
    /\ Len(results) < Len(uploaded_files)
    /\ results' = Append(results,
                         process_single_image(uploaded_files[Len(results) + 1], Len(results)))
    /\ UNCHANGED <<uploaded_files, main_pc>>
    /\ UNCHANGED export_vars
    /\ UNCHANGED engine_vars
    /\ UNCHANGED <<session_vars, pdf_vars, chunk_vars>>

(* main (lines 411-412): the loop is over *)
Finish ==
    /\ main_pc = "loop"
    /\ Len(results) = Len(uploaded_files)
    /\ main_pc' = "done"
    /\ UNCHANGED <<uploaded_files, results>>
    /\ UNCHANGED export_vars
    /\ UNCHANGED engine_vars
    /\ UNCHANGED <<session_vars, pdf_vars, chunk_vars>>

(* main (lines 414-505): the results are shown, and with at least one success
   the two exports are built for the download buttons. The rows of the CSV
   export (lines 507-531) are not kept. *)
Export ==
    /\ main_pc = "done"
    /\ \E now_json, now_txt \in Instants :
        IF success_count(results) > 0
        THEN /\ json_data' = Some(export_to_json(results, now_json))
             /\ txt_data' = Some(export_to_txt(results, now_txt))
        ELSE UNCHANGED export_vars
    /\ main_pc' = "exported"
    /\ UNCHANGED <<uploaded_files, results>>
    /\ UNCHANGED engine_vars
    /\ UNCHANGED <<session_vars, pdf_vars, chunk_vars>>

(* Enter with the record of the call before kept instead of a new one *)
EnterStale(text) ==
    /\ ocr_text' = text
    /\ info' = [info EXCEPT !.raw_text = text]
    /\ lines' = split(text, "\n")
    /\ i' = 1
    /\ pc' = "loop"

(* extract_personal_info (lines 87-108): entering the function with argument text *)
Enter(text) ==
    /\ ocr_text' = text
    /\ info' = NewInfo(text)
    /\ lines' = split(text, "\n")
    /\ i' = 1
    /\ pc' = "loop"

(* a caller runs the engine on a text: the first run on that text *)
Call ==
    /\ pc = "idle" \/ (pc = "returned" /\ prev # None)
    /\ \E text \in Texts(corpus) : Enter(text)
    /\ prev' = None
    /\ UNCHANGED corpus
    /\ UNCHANGED main_vars
    /\ UNCHANGED <<session_vars, pdf_vars, chunk_vars>>

(* the caller runs the engine a second time on the same text, and keeps the
   record of the first run *)
CallAgain ==
    /\ pc = "returned" /\ prev = None
    /\ Enter(ocr_text)
    /\ prev' = Some(info)
    /\ UNCHANGED corpus
    /\ UNCHANGED main_vars
    /\ UNCHANGED <<session_vars, pdf_vars, chunk_vars>>

(* extract_personal_info (lines 110-188): one iteration of the loop over the lines *)
LoopStep ==
    /\ pc = "loop"
    /\ i <= Len(lines)
    /\ info' = LoopBody(info, lines, i)
    /\ i' = i + 1
    /\ UNCHANGED <<corpus, ocr_text, lines, pc, prev>>
    /\ UNCHANGED main_vars
    /\ UNCHANGED <<session_vars, pdf_vars, chunk_vars>>

(* extract_personal_info (line 190): return info *)
Return ==
    /\ pc = "loop"
    /\ i > Len(lines)
    /\ pc' = "returned"
    /\ UNCHANGED <<corpus, ocr_text, lines, i, info, prev>>
    /\ UNCHANGED main_vars
    /\ UNCHANGED <<session_vars, pdf_vars, chunk_vars>>

(* main: the next interaction runs the script again from the top *)
Rerun ==
    /\ main_pc = "exported"
    /\ uploaded_files' = <<>>
    /\ results' = <<>>
    /\ main_pc' = "ready"
    /\ json_data' = None
    /\ txt_data' = None
    /\ UNCHANGED engine_vars
    /\ UNCHANGED <<session_vars, pdf_vars, chunk_vars>>

Next == Launch \/ ProcessFile \/ Finish \/ Export \/ Rerun

Spec == Init /\ [][Next]_vars

NextEngine == Call \/ CallAgain \/ LoopStep \/ Return

SpecEngine == Init /\ [][NextEngine]_vars

SpecAddress == InitAddress /\ [][NextEngine]_vars

SpecConsent == InitConsent /\ [][NextEngine]_vars

SpecIdentity == InitIdentity /\ [][NextEngine]_vars

SpecStatus == InitStatus /\ [][NextEngine]_vars

----------------------------------------------------------------------------
(* The multi-document chat application (ocr-streamlit.py). Each interaction of
   the user runs the script from the top: setup_api_key, then, with a valid key,
   the tabs, where at most one button is pressed. PDFOCRProcessor
   (pdf-ocr-streamlit.py) has the same setup_api_key, upload_documents and
   show_document_collection, without the chat. *)

MaxBatch == 2
MaxChat == 2

\* the keys typed in the sidebar
ApiKeys == {"", "sk-1", "sk-2"}
\* the names of the files the user can pick
DocNames == {"a.pdf", "b.png", "C.PDF"}
\* the batches of 1 to MaxBatch files; the same name may come twice in one batch
UploadBatches == SeqsUpTo(DocNames, MaxBatch)
\* the questions typed in the chat form
Questions == {"", " \n", "Compare"}

endswith(s, suffix) ==
    Len(suffix) <= Len(s) /\ SubSeq(s, Len(s) - Len(suffix) + 1, Len(s)) = suffix

\* process_pdf (lines 80-109); ok is FALSE when a call to the API raises
process_pdf(file_name, ok) ==
    IF ok
    THEN [name |-> file_name, type |-> "PDF", file_id |-> "id-" \o file_name,
          signed_url |-> "https://files/" \o file_name, status |-> "success"]
    ELSE [name |-> file_name, type |-> "PDF", status |-> "error", error |-> "timeout"]

\* process_image (lines 111-147)
process_image(file_name, ok) ==
    IF ok
    THEN [name |-> file_name, type |-> "Image", ocr_results |-> "pages of " \o file_name,
          extracted_text |-> "", status |-> "success"]
    ELSE [name |-> file_name, type |-> "Image", status |-> "error", error |-> "timeout"]

\* doc['name'] for doc in st.session_state.documents
DocNamesOf(docs) == {docs[k].name : k \in 1..Len(docs)}

\* the state of the loop of upload_documents: the collection and what was displayed
UploadState(docs, log) == [documents |-> docs, log |-> log]

(* UploadStep with no test of the names already loaded *)
UploadStepNoCheck(st, file_name, ok) ==
    LET result == IF endswith(lower(file_name), ".pdf")
                  THEN process_pdf(file_name, ok)
                  ELSE process_image(file_name, ok)
    IN IF result.status = "success"
       THEN UploadState(Append(st.documents, result), Append(st.log, <<file_name, "success">>))
       ELSE UploadState(st.documents, Append(st.log, <<file_name, "error">>))

(* upload_documents (lines 171-198): one iteration of the loop over the files *)
UploadStep(st, file_name, ok) ==
    IF file_name \in DocNamesOf(st.documents)
    THEN UploadState(st.documents, Append(st.log, <<file_name, "skipped">>))
    ELSE LET result == IF endswith(lower(file_name), ".pdf")
                       THEN process_pdf(file_name, ok)
                       ELSE process_image(file_name, ok)
         IN IF result.status = "success"
            THEN UploadState(Append(st.documents, result),
                             Append(st.log, <<file_name, "success">>))
            ELSE UploadState(st.documents, Append(st.log, <<file_name, "error">>))

RECURSIVE UploadLoop(_, _, _, _)
\* upload_documents (line 171): the loop from the k-th file on
UploadLoop(st, files, oks, k) ==
    IF k > Len(files) THEN st
    ELSE UploadLoop(UploadStep(st, files[k], oks[k]), files, oks, k + 1)

\* documents.pop(k - 1)
pop(docs, k) == SubSeq(docs, 1, k - 1) \o SubSeq(docs, k + 1, Len(docs))

\* process_question (lines 281-318): the answer of the model, or the message of
\* the except branch
process_question(question, ok) ==
    IF ok THEN "Analyse : " \o strip(question)
    ELSE "<U+274C> Erreur lors du traitement : timeout"

(* SetupApiKey where an empty key leaves api_key_valid as it is *)
SetupApiKeyKeepsValid ==
    /\ session_pc = "start"
    /\ \E key \in ApiKeys, ok \in BOOLEAN :
        /\ api_key' = key
        /\ IF key # ""
           THEN IF client = None \/ ~api_key_valid
                THEN IF ok
                     THEN client' = Some(key) /\ api_key_valid' = TRUE
                     ELSE api_key_valid' = FALSE /\ UNCHANGED client
                ELSE UNCHANGED <<client, api_key_valid>>
           ELSE UNCHANGED <<client, api_key_valid>>
        /\ session_pc' = IF api_key_valid' THEN "tabs" ELSE "start"
    /\ event' = "none"
    /\ status_log' = <<>>
    /\ UNCHANGED <<documents, chat_history>>
    /\ UNCHANGED <<fiches_vars, pdf_vars, chunk_vars>>

(* run (lines 354-360) with setup_api_key (lines 31-63): the key of the sidebar is
   tested when no valid client is stored; ok is FALSE when Mistral(...) or
   client.models.list() raises. Without a valid key the run stops here. *)
SetupApiKey ==
    /\ session_pc = "start"
    /\ \E key \in ApiKeys, ok \in BOOLEAN :
        /\ api_key' = key
        /\ IF key # ""
           THEN IF client = None \/ ~api_key_valid
                THEN IF ok
                     THEN client' = Some(key) /\ api_key_valid' = TRUE
                     ELSE api_key_valid' = FALSE /\ UNCHANGED client
                ELSE UNCHANGED <<client, api_key_valid>>
           ELSE api_key_valid' = FALSE /\ UNCHANGED client
        /\ session_pc' = IF api_key_valid' THEN "tabs" ELSE "start"
    /\ event' = "none"
    /\ status_log' = <<>>
    /\ UNCHANGED <<documents, chat_history>>
    /\ UNCHANGED <<fiches_vars, pdf_vars, chunk_vars>>

(* upload_documents (lines 161-202): files are picked and the button is pressed;
   the whole loop, then st.rerun() *)
UploadDocuments ==
    /\ session_pc = "tabs"
    /\ \E files \in UploadBatches :
        \E oks \in [1..Len(files) -> BOOLEAN] :
            LET st == UploadLoop(UploadState(documents, <<>>), files, oks, 1)
            IN /\ documents' = st.documents
               /\ status_log' = st.log
    /\ event' = "upload"
    /\ session_pc' = "start"
    /\ UNCHANGED <<chat_history, client, api_key_valid, api_key>>
    /\ UNCHANGED <<fiches_vars, pdf_vars, chunk_vars>>

(* show_document_collection (lines 229-231): the delete button of one document *)
DeleteDocument ==
    /\ session_pc = "tabs"
    /\ \E k \in 1..Len(documents) : documents' = pop(documents, k)
    /\ event' = "delete"
    /\ session_pc' = "start"
    /\ UNCHANGED <<chat_history, client, api_key_valid, api_key, status_log>>
    /\ UNCHANGED <<fiches_vars, pdf_vars, chunk_vars>>

(* show_document_collection (lines 234-241): the button "Tout supprimer" *)
DeleteAll ==
    /\ session_pc = "tabs"
    /\ documents # <<>>
    /\ documents' = <<>>
    /\ chat_history' = <<>>
    /\ event' = "delete_all"
    /\ session_pc' = "start"
    /\ UNCHANGED <<client, api_key_valid, api_key, status_log>>
    /\ UNCHANGED <<fiches_vars, pdf_vars, chunk_vars>>

(* ChatSubmit with no test of question.strip() *)
ChatSubmitBlank ==
    /\ session_pc = "tabs"
    /\ documents # <<>>
    /\ Len(chat_history) < MaxChat
    /\ \E question \in Questions, ok \in BOOLEAN :
        chat_history' = Append(chat_history, <<question, process_question(question, ok)>>)
    /\ event' = "chat"
    /\ session_pc' = "start"
    /\ UNCHANGED <<documents, client, api_key_valid, api_key, status_log>>
    /\ UNCHANGED <<fiches_vars, pdf_vars, chunk_vars>>

(* chat_interface (lines 243-279): the form is submitted with a question; ok is
   FALSE when process_question catches an exception *)
ChatSubmit ==
    /\ session_pc = "tabs"
    /\ documents # <<>>
    /\ Len(chat_history) < MaxChat
    /\ \E question \in Questions, ok \in BOOLEAN :
        IF strip(question) # ""
        THEN chat_history' =
                 Append(chat_history, <<question, process_question(question, ok)>>)
        ELSE UNCHANGED chat_history
    /\ event' = "chat"
    /\ session_pc' = "start"
    /\ UNCHANGED <<documents, client, api_key_valid, api_key, status_log>>
    /\ UNCHANGED <<fiches_vars, pdf_vars, chunk_vars>>

(* run (lines 366-378): the tabs are drawn and no button is pressed *)
EndRun ==
    /\ session_pc = "tabs"
    /\ session_pc' = "start"
    /\ UNCHANGED <<documents, chat_history, client, api_key_valid, api_key, event,
                   status_log>>
    /\ UNCHANGED <<fiches_vars, pdf_vars, chunk_vars>>

NextSession ==
    SetupApiKey \/ UploadDocuments \/ DeleteDocument \/ DeleteAll \/ ChatSubmit \/ EndRun

SpecSession == Init /\ [][NextSession]_vars

----------------------------------------------------------------------------
(* The PDF enrichment application (pdf-ocr-streamlit.py): process_pdf_ocr builds
   the full text of a PDF from the pages of the OCR response, add_text_to_pdf
   aligns the page texts on the pages of the PDF. *)

MaxPages == 2

\* page.markdown of a page; the last one holds a horizontal rule of markdown
Markdowns == {"", "Page A", "# B", "x\n\n---\n\ny"}
\* the pages of an OCR response: indexes are 0-based and may leave gaps
OcrPages == [index : 0..MaxPages, markdown : Markdowns]
OcrPageLists == {<<>>} \cup SeqsUpTo(OcrPages, MaxPages)

PageSeparator == "\n\n---\n\n"

\* {page.index: page.markdown for page in ocr_response.pages} (line 90): of two
\* pages of the same index the later one stays
PageTextsMap(pages) ==
    [n \in {pages[k].index : k \in 1..Len(pages)} |->
        LET last == CHOOSE k \in 1..Len(pages) :
                        /\ pages[k].index = n
                        /\ \A m \in (k + 1)..Len(pages) : pages[m].index # n
        IN pages[last].markdown]

\* page_texts_map.get(n, "")
MapGet(map, n) == IF n \in DOMAIN map THEN map[n] ELSE ""

\* max(page_texts_map.keys())
MaxKey(map) == CHOOSE m \in DOMAIN map : \A n \in DOMAIN map : n <= m

(* FullTextList over range(max_index) *)
FullTextListShort(map) ==
    IF DOMAIN map = {} THEN <<>>
    ELSE [k \in 1..MaxKey(map) |-> MapGet(map, k - 1)]

\* process_pdf_ocr (lines 93-96): full_text_list
FullTextList(map) ==
    IF DOMAIN map = {} THEN <<>>
    ELSE [k \in 1..(MaxKey(map) + 1) |-> MapGet(map, k - 1)]

\* process_pdf_ocr (lines 63-116); response is None when a call to the API raises
process_pdf_ocr(file_name, response) ==
    IF response = None
    THEN [name |-> file_name, type |-> "PDF", status |-> "error", error |-> "timeout"]
    ELSE [name |-> file_name, type |-> "PDF", original_bytes |-> "%PDF " \o file_name,
          extracted_text |-> join(FullTextList(PageTextsMap(response[1])), PageSeparator),
          page_texts_map |-> PageTextsMap(response[1]), status |-> "success"]

(* upload_documents (lines 187-191) calls process_pdf_ocr on a file *)
ProcessPdfOcr ==
    /\ pdf_pc = "idle"
    /\ \E response \in {None} \cup {Some(pages) : pages \in OcrPageLists} :
        /\ ocr_pages' = IF response = None THEN <<>> ELSE response[1]
        /\ full_text_list' = IF response = None THEN <<>>
                             ELSE FullTextList(PageTextsMap(response[1]))
        /\ pdf_result' = Some(process_pdf_ocr("a.pdf", response))
    /\ pdf_pc' = "processed"
    /\ UNCHANGED page_texts
    /\ UNCHANGED <<fiches_vars, session_vars, chunk_vars>>

(* download_section (lines 248-261) calls add_text_to_pdf (lines 117-131) on a
   document with a non-empty page_texts_map; the PDF has num_pages pages *)
AddTextToPdf ==
    /\ pdf_pc = "processed"
    /\ pdf_result[1].status = "success"
    /\ DOMAIN pdf_result[1].page_texts_map # {}
    /\ \E num_pages \in 1..(MaxPages + 1) :
        page_texts' = [k \in 1..num_pages |-> MapGet(pdf_result[1].page_texts_map, k - 1)]
    /\ pdf_pc' = "enriched"
    /\ UNCHANGED <<ocr_pages, pdf_result, full_text_list>>
    /\ UNCHANGED <<fiches_vars, session_vars, chunk_vars>>

(* upload_documents (line 175): the loop goes on to the next file *)
NextPdf ==
    /\ pdf_pc \in {"processed", "enriched"}
    /\ ocr_pages' = <<>>
    /\ pdf_result' = None
    /\ full_text_list' = <<>>
    /\ page_texts' = <<>>
    /\ pdf_pc' = "idle"
    /\ UNCHANGED <<fiches_vars, session_vars, chunk_vars>>

NextPdfOcr == ProcessPdfOcr \/ AddTextToPdf \/ NextPdf

SpecPdfOcr == Init /\ [][NextPdfOcr]_vars

----------------------------------------------------------------------------
(* The image application (ocr-png.py): create_pdf_from_text cuts the text in
   chunks of at most chars_per_page characters, one chunk for each page. *)

MaxPieces == 4
MaxCharsPerPage == 10

\* the texts are made of up to MaxPieces of these pieces
Pieces == {"aaaa", "b", " ", "."}
ChunkTexts == {""} \cup {join(t, "") : t \in SeqsUpTo(Pieces, MaxPieces)}

\* chars_per_page (line 199) is 3760 on the A4 page of doc.new_page(); the texts
\* of the model are short, and so is the page
CharsPerPage == 1..MaxCharsPerPage

NoTextMessage == "Aucun texte détecté dans cette image."

\* str.lstrip()
lstrip(s) == From(s, RunEnd(s, 1, Whitespace))

\* the characters on which the text is cut (line 211)
CutChars == {" ", "\n", ".", ","}

RECURSIVE CutBack(_, _, _)
\* the inner while loop (lines 211-212) from cut_point; remaining_text[cut_point]
\* of Python is the character at position cut_point + 1
CutBack(remaining, per_page, cut_point) ==
    IF 5 * cut_point > 4 * per_page /\ Ch(remaining, cut_point + 1) \notin CutChars
    THEN CutBack(remaining, per_page, cut_point - 1)
    ELSE cut_point

(* CutPoint that keeps the cut point the search ended on *)
CutPointNoReset(remaining, per_page) == CutBack(remaining, per_page, per_page)

\* lines 210-215: the cut point for a text longer than the page
CutPoint(remaining, per_page) ==
    LET cut_point == CutBack(remaining, per_page, per_page)
    IN IF 5 * cut_point <= 4 * per_page THEN per_page ELSE cut_point

(* create_pdf_from_text (lines 159-202) is called: the blank text is replaced, the
   loop is entered *)
CreatePdfFromText ==
    /\ chunk_pc = "idle"
    /\ \E text \in ChunkTexts, per_page \in CharsPerPage :
        /\ text_arg' = IF text = "" \/ strip(text) = "" THEN NoTextMessage ELSE text
        /\ chars_per_page' = per_page
    /\ remaining_text' = text_arg'
    /\ text_chunks' = <<>>
    /\ chunk_pc' = "loop"
    /\ UNCHANGED <<fiches_vars, session_vars, pdf_vars>>

(* lines 204-207: the rest fits on a page, it is the last chunk; break *)
ChunkLast ==
    /\ chunk_pc = "loop"
    /\ remaining_text # ""
    /\ Len(remaining_text) <= chars_per_page
    /\ text_chunks' = Append(text_chunks, remaining_text)
    /\ chunk_pc' = "done"
    /\ UNCHANGED <<text_arg, chars_per_page, remaining_text>>
    /\ UNCHANGED <<fiches_vars, session_vars, pdf_vars>>

(* lines 208-218: a chunk is cut from the front of the rest *)
ChunkCut ==
    /\ chunk_pc = "loop"
    /\ remaining_text # ""
    /\ Len(remaining_text) > chars_per_page
    /\ LET cut_point == CutPoint(remaining_text, chars_per_page)
       IN /\ text_chunks' = Append(text_chunks, SubSeq(remaining_text, 1, cut_point))
          /\ remaining_text' = lstrip(From(remaining_text, cut_point + 1))
    /\ UNCHANGED <<text_arg, chars_per_page, chunk_pc>>
    /\ UNCHANGED <<fiches_vars, session_vars, pdf_vars>>

(* line 204: the rest is empty, the loop is over *)
ChunkExit ==
    /\ chunk_pc = "loop"
    /\ remaining_text = ""
    /\ chunk_pc' = "done"
    /\ UNCHANGED <<text_arg, chars_per_page, remaining_text, text_chunks>>
    /\ UNCHANGED <<fiches_vars, session_vars, pdf_vars>>

(* lines 220-247: the chunks are laid on the pages and the PDF is returned; the
   locals of the call are gone *)
ChunkReturn ==
    /\ chunk_pc = "done"
    /\ text_arg' = ""
    /\ chars_per_page' = 1
    /\ remaining_text' = ""
    /\ text_chunks' = <<>>
    /\ chunk_pc' = "idle"
    /\ UNCHANGED <<fiches_vars, session_vars, pdf_vars>>

ChunkLoop == ChunkLast \/ ChunkCut \/ ChunkExit

NextChunks == CreatePdfFromText \/ ChunkLast \/ ChunkCut \/ ChunkExit \/ ChunkReturn

\* the interpreter goes on with the loop as long as it can
SpecChunks == Init /\ [][NextChunks]_vars /\ WF_vars(ChunkLoop)

----------------------------------------------------------------------------
(* Properties of main and process_single_image, under Spec *)

\* the OCR call on file f returned a first page whose text is empty or whitespace
BlankOcrText(f) ==
    /\ f.ocr.raises = None
    /\ f.ocr.pages # <<>>
    /\ f.ocr.pages[1] # None
    /\ strip(f.ocr.pages[1][1]) = ""

\* C1: an input whose OCR text is empty or only whitespace gets an Error record,
\* never a Success record.
C1_BlankTextGivesError ==
    \A k \in 1..Len(results) :
        BlankOcrText(uploaded_files[k]) => results[k].status = "error"

\* C2: a failure on one input does not stop the batch: it is recorded in that
\* input's record as status "error", the other inputs are still processed, and
\* when the loop is over there is one record per input, in input order.
C2_BatchSurvivesFailures ==
    /\ Len(results) <= Len(uploaded_files)
    /\ \A k \in 1..Len(results) :
        /\ results[k].filename = uploaded_files[k].name
        /\ results[k].status = "error" <=> uploaded_files[k].ocr.raises # None
    /\ main_pc # "loop" => Len(results) = Len(uploaded_files)

C2_Witness ==
    /\ main_pc = "done"
    /\ Len(results) >= 2
    /\ results[1].status = "error"
    /\ results[2].status = "success"

NonEmptyFields(data) ==
    {InfoKeys[n] : n \in {m \in 1..Len(InfoKeys) :
        LET k == InfoKeys[m]
        IN  IF k = "raw_text" THEN FALSE
            ELSE IF k \in FlagKeys THEN data[k]
            ELSE IF k \in DictKeys THEN DOMAIN data[k] # {}
            ELSE Truthy(data[k])}}

\* the lines of the plain-text report
ReportLines == split(txt_data[1], "\n")

\* line l of the report opens the block of a file
IsFileLine(l) == StartsAt(l, 1, IconFile \o " Fichier: ")

\* the keys a line of the report shows
FieldsOfLine(l) ==
    IF StartsAt(l, 1, IconName \o " Nom complet: ") THEN {"nom_complet"}
    ELSE IF StartsAt(l, 1, IconProfession \o " Profession: ") THEN {"profession"}
    ELSE IF StartsAt(l, 1, IconSituation \o " Situation: ") THEN {"situation"}
    ELSE IF StartsAt(l, 1, IconAddress \o " Adresse: ") THEN {"adresse"}
    ELSE IF StartsAt(l, 1, "   ") THEN {"code_postal", "ville"}
    ELSE IF StartsAt(l, 1, IconFixe \o "  Fixe: ") THEN {"telephone_fixe"}
    ELSE IF StartsAt(l, 1, IconMobile \o " Mobile: ") THEN {"telephone_mobile"}
    ELSE IF StartsAt(l, 1, IconEmail \o "  Email: ") THEN {"email"}
    ELSE {}

\* the indexes of the lines that open a block, in order
FileLineIndexes ==
    SelectSeq([n \in 1..Len(ReportLines) |-> n], LAMBDA n : IsFileLine(ReportLines[n]))

\* the keys the k-th block of the report shows
DisplayedFields(k) ==
    LET first == FileLineIndexes[k] + 1
        last == IF k < Len(FileLineIndexes) THEN FileLineIndexes[k + 1] - 1
                ELSE Len(ReportLines)
    IN  UNION {FieldsOfLine(ReportLines[n]) : n \in first..last}

\* C16: the fields read back from the plain-text report are exactly the
\* non-empty fields of the success records, record by record.
C16_TxtReportKeepsEveryField ==
    txt_data # None =>
        /\ Len(FileLineIndexes) = Len(Successes(results))
        /\ \A k \in 1..Len(FileLineIndexes) :
               DisplayedFields(k) = NonEmptyFields(Successes(results)[k].structured_data)

\* C17: the JSON export holds no raw OCR text: no exported record has the key
\* raw_text.
C17_JsonExportOmitsRawText ==
    json_data # None => ~Contains(json_data[1], "\"raw_text\":")

\* C18: the file name given with an input is, unchanged, the filename of that
\* input's record, whether the record is a success or an error.
C18_FilenameIsEchoed ==
    \A k \in 1..Len(results) :
        /\ results[k].status = "success" => results[k].filename = uploaded_files[k].name
        /\ results[k].status = "error" => results[k].filename = uploaded_files[k].name

C18_Witness ==
    /\ main_pc = "exported"
    /\ \E j, k \in 1..Len(results) :
        /\ results[j].status = "success" /\ results[j].filename = "a.png"
        /\ results[k].status = "error" /\ results[k].filename = "b.png"

----------------------------------------------------------------------------
(* Properties of extract_personal_info, under SpecEngine *)

\* C4: a second run on the same text returns the record the first run returned,
\* whatever was run before.
C4_SameTextSameRecord ==
    pc = "returned" /\ prev # None => info = prev[1]

C4_Witness ==
    /\ pc = "returned"
    /\ prev # None
    /\ info.telephone_fixe # None
    /\ info.code_postal # None

NoneOf(text, keywords) == \A w \in keywords : ~Contains(text, w)

HasDigitRun(text, n) ==
    \E p \in 1..(Len(text) - n + 1) : \A r \in p..(p + n - 1) : Ch(text, r) \in Digits

\* C5: a field whose keyword or pattern is nowhere in the text is absent from the
\* returned record: None, or False for an authorization.
C5_NoPatternNoField ==
    pc = "returned" =>
        LET t == ocr_text
            lt == lower(ocr_text)
        IN  /\ NoneOf(t, {"0", "+33"}) =>
                info.telephone_fixe = None /\ info.telephone_mobile = None
            /\ ~HasDigitRun(t, 5) => info.code_postal = None /\ info.ville = None
            /\ NoneOf(lt, {"rue", "avenue", "boulevard", "place", "impasse", "chemin"}) =>
                info.adresse = None
            /\ NoneOf(t, {"PLANTEGENET", "Mme", "M."}) =>
                info.nom_complet = None /\ info.nom = None /\ info.prenom = None
            /\ NoneOf(lt, {"profession", "employé"}) => info.profession = None
            /\ NoneOf(lt, {"celibataire", "marie", "divorce", "veuf", "pacse"}) =>
                info.situation = None
            /\ NoneOf(t, {"@"}) => info.email = None
            /\ NoneOf(lt, {"legal"}) => info.legal = None
            /\ NoneOf(lt, {"autoris"}) =>
                /\ ~info.autorisation_sms
                /\ ~info.autorisation_email
                /\ ~info.autorisation_courrier

C5_Witness ==
    /\ pc = "returned"
    /\ NoneOf(ocr_text, {"0", "+33"})
    /\ ~HasDigitRun(ocr_text, 5)
    /\ info.adresse # None
    /\ info.telephone_fixe = None
    /\ info.code_postal = None

\* ten digits as five pairs separated by single spaces
FivePairs(v) ==
    /\ Len(v) = 14
    /\ \A p \in 1..14 : IF p \in {3, 6, 9, 12} THEN Ch(v, p) = " " ELSE Ch(v, p) \in Digits

\* the telephone numbers of the record
StoredPhones == {v \in {info.telephone_fixe, info.telephone_mobile} : v # None}

\* C6: telephone_fixe and telephone_mobile are each absent or ten digits written
\* as five pairs separated by single spaces.
C6_PhonesAreFivePairs ==
    pc = "returned" => \A v \in StoredPhones : FivePairs(v[1])

\* the normalization the claim describes: separators stripped, a leading 33
\* replaced by 0
Normalized(v) ==
    LET d == RemoveChars(v, {" ", "\t", "(", ")", "+", "-"})
    IN  IF StartsAt(d, 1, "33") THEN "0" \o From(d, 3) ELSE d

\* C7: a stored number is normalized (no separator, a leading 33 replaced by 0),
\* and a candidate that does not have exactly 10 digits is stored in no slot.
C7_PhonesAreNormalizedTenDigits ==
    pc = "returned" =>
        \A v \in StoredPhones :
            /\ Len(RemoveChars(v[1], {" "})) = 10
            /\ \A p \in 1..Len(v[1]) : Ch(v[1], p) \in Digits \cup {" "}
            /\ RemoveChars(v[1], {" "}) = Normalized(v[1])

MobilePrefix(v) == StartsAt(Normalized(v), 1, "06") \/ StartsAt(Normalized(v), 1, "07")

\* C8: a number that starts with 06 or 07 is in the mobile slot and any other
\* number is in the landline slot.
C8_PhonesAreClassifiedByPrefix ==
    pc = "returned" =>
        /\ info.telephone_fixe # None => ~MobilePrefix(info.telephone_fixe[1])
        /\ info.telephone_mobile # None => MobilePrefix(info.telephone_mobile[1])

\* C9: within a pass, a telephone slot that holds a number keeps it.
C9_PhoneSlotsAreNotOverwritten ==
    [][pc = "loop" /\ pc' = "loop" =>
        /\ info.telephone_fixe # None => info'.telephone_fixe = info.telephone_fixe
        /\ info.telephone_mobile # None => info'.telephone_mobile = info.telephone_mobile]_vars

\* C10: code_postal is absent or a string of exactly 5 digits.
C10_PostalCodeIsFiveDigits ==
    info.code_postal # None =>
        /\ Len(info.code_postal[1]) = 5
        /\ \A p \in 1..5 : Ch(info.code_postal[1], p) \in Digits

C10_Witness ==
    pc = "returned" /\ info.code_postal = Some("75013") /\ info.ville # None

\* the telephone numbers of line l that the loop accepts, in order
AcceptedTels(l) == SelectSeq(tel_matches(strip(l)), TelAccepted)

\* C27: telephone_mobile is set only if telephone_fixe is set, and the first
\* accepted number of a text goes to telephone_fixe, whatever its prefix.
C27_FirstPhoneGoesToFixe ==
    /\ [](info.telephone_mobile # None => info.telephone_fixe # None)
    /\ [][pc = "loop" /\ pc' = "loop" /\ info.telephone_fixe = None
            /\ AcceptedTels(lines[i]) # <<>> =>
              /\ info'.telephone_fixe # None
              /\ ~Contains(lower(lines[i]), "fixe") =>
                     info'.telephone_fixe = Some(tel_clean(AcceptedTels(lines[i])[1]))]_vars

C27_Witness ==
    /\ pc = "returned"
    /\ info.telephone_fixe = Some("0612345678")
    /\ info.telephone_mobile = Some("0711223344")

----------------------------------------------------------------------------
(* Properties of the address fields, under SpecAddress *)

\* s.endswith(t)
EndsWith(s, t) == Len(t) <= Len(s) /\ SubSeq(s, Len(s) - Len(t) + 1, Len(s)) = t

\* a city group with a trailing "- FRANCE" or "FRANCE" stripped
WithoutFrance(city) ==
    IF EndsWith(city, "- FRANCE") THEN strip(SubSeq(city, 1, Len(city) - 8))
    ELSE IF EndsWith(city, "FRANCE") THEN strip(SubSeq(city, 1, Len(city) - 6))
    ELSE city

\* the keys of the record whose value is None or a string
OptionalKeys == {InfoKeys[n] : n \in 1..Len(InfoKeys)} \ (FlagKeys \cup DictKeys \cup {"raw_text"})

\* some field of the record holds the string v
HeldByRecord(inf, v) == \E k \in OptionalKeys : inf[k] = Some(v)

\* line n of the text holds a postal code and a city
IsCpLine(n) == cp_ville_match(strip(lines[n])) > 0

\* line n of the text matches the address pattern
IsAddrLine(n) == AddrTrigger(strip(lines[n])) /\ addr_match(strip(lines[n])) > 0

\* the last line of the text that holds a postal code and a city
LastCpLine == CHOOSE n \in 1..Len(lines) : IsCpLine(n) /\ \A m \in (n + 1)..Len(lines) : ~IsCpLine(m)

\* C11: when a postal-code/city line is matched, the postal code is the digit
\* group, the city is the letter group without a trailing "FRANCE" or "- FRANCE",
\* and the country is "FRANCE" exactly when "FRANCE" was there.
C11_CityWithoutCountry ==
    pc = "returned" /\ (\E n \in 1..Len(lines) : IsCpLine(n)) =>
        LET l == strip(lines[LastCpLine])
            p == cp_ville_match(l)
            city == strip(CpGroup2(l, p))
        IN  /\ info.code_postal = Some(CpGroup1(l, p))
            /\ info.ville = Some(WithoutFrance(city))
            /\ HeldByRecord(info, "FRANCE") <=> EndsWith(city, "FRANCE")

\* C12: a postal code and a city come only from a line in the window of 3 lines
\* that starts at a line matching the address pattern.
C12_PostalOnlyInAddressWindow ==
    pc = "returned" /\ (info.code_postal # None \/ info.ville # None) =>
        \E a \in 1..Len(lines) : \E n \in a..Min(a + 2, Len(lines)) :
            IsAddrLine(a) /\ IsCpLine(n)

\* lines 1..n hold an address line with a postal-code line in its window
PairFoundBy(n) ==
    \E a \in 1..n : \E k \in a..Min(a + 2, n) : IsAddrLine(a) /\ IsCpLine(k)

\* C13: once an address line with a postal code in its window has been read, no
\* later line changes adresse, code_postal or ville.
C13_FirstAddressWins ==
    [][pc = "loop" /\ pc' = "loop" /\ PairFoundBy(i - 1) =>
        /\ info'.adresse = info.adresse
        /\ info'.code_postal = info.code_postal
        /\ info'.ville = info.ville]_vars

----------------------------------------------------------------------------
(* Properties of the authorizations, under SpecConsent *)

\* C14: a text that contains "Email interdit", in any case, gives
\* autorisation_email = False, and a text that contains "Email autorisé", in any
\* case, and no "interdit" gives True.
C14_EmailPhraseDecides ==
    pc = "returned" =>
        LET t == lower(ocr_text)
        IN  /\ Contains(t, "email interdit") => ~info.autorisation_email
            /\ Contains(t, "email autorisé") /\ ~Contains(t, "interdit") =>
                   info.autorisation_email

\* the flags a line without the word of their category leaves alone
ConsentFrame(l) ==
    /\ ~Contains(lower(l), "sms") => info'.autorisation_sms = info.autorisation_sms
    /\ ~Contains(lower(l), "email") => info'.autorisation_email = info.autorisation_email
    /\ ~Contains(lower(l), "courrier") =>
           info'.autorisation_courrier = info.autorisation_courrier

\* the flags are False in the record of a text without the word of their category
ConsentDefaults ==
    pc = "returned" =>
        /\ ~Contains(lower(ocr_text), "sms") => ~info.autorisation_sms
        /\ ~Contains(lower(ocr_text), "email") => ~info.autorisation_email
        /\ ~Contains(lower(ocr_text), "courrier") => ~info.autorisation_courrier

\* C15: each authorization flag is False by default, and a phrase of one category
\* never changes the flag of another: a flag is False when the text has no phrase
\* of its category, and a line changes only the flags of the categories it names.
C15_ConsentCategoriesAreIndependent ==
    /\ []ConsentDefaults
    /\ [][pc = "loop" /\ pc' = "loop" => ConsentFrame(lines[i])]_vars

C15_Witness ==
    /\ pc = "returned"
    /\ Contains(ocr_text, "Email interdit")
    /\ info.autorisation_sms
    /\ ~info.autorisation_email
    /\ info.autorisation_courrier

----------------------------------------------------------------------------
(* Properties of the identity fields, under SpecIdentity *)

\* a class code <1-6><letter><1-9>? starts at p: its length, 0 if none
ClassCodeLen(l, p) ==
    IF /\ p + 1 <= Len(l)
       /\ Ch(l, p) \in {"1", "2", "3", "4", "5", "6"}
       /\ Ch(l, p + 1) \in UpperAscii \cup {"e"}
       /\ p = 1 \/ Ch(l, p - 1) \notin WordChars
    THEN (IF p + 2 <= Len(l) /\ Ch(l, p + 2) \in (Digits \ {"0"}) THEN 3 ELSE 2)
    ELSE 0

HasClassCode(l) == \E p \in 1..Len(l) : ClassCodeLen(l, p) > 0

\* the first class code of line l
ClassCodeOf(l) ==
    LET p == CHOOSE x \in 1..Len(l) :
                 ClassCodeLen(l, x) > 0 /\ \A y \in 1..(x - 1) : ClassCodeLen(l, y) = 0
    IN  SubSeq(l, p, p + ClassCodeLen(l, p) - 1)

\* the first line of the text with a class code
FirstClassLine ==
    CHOOSE n \in 1..Len(lines) :
        HasClassCode(lines[n]) /\ \A m \in 1..(n - 1) : ~HasClassCode(lines[m])

\* C19: the first line on which a class pattern matches gives the class code of
\* the record ("Classe : 3E1 - Général" gives "3E1"), whatever the later lines.
C19_FirstClassCodeWins ==
    pc = "returned" /\ (\E n \in 1..Len(lines) : HasClassCode(lines[n])) =>
        HeldByRecord(info, ClassCodeOf(lines[FirstClassLine]))

\* a token of capital letters
IsSurname(t) == t # "" /\ \A p \in 1..Len(t) : Ch(t, p) \in UpperChars \cup {"-"}

\* a capital letter followed by small letters
IsFirstname(t) ==
    /\ Len(t) >= 2
    /\ Ch(t, 1) \in UpperChars
    /\ \A p \in 2..Len(t) : Ch(t, p) \in LowerChars \cup {"-"}

\* line l is (title) (SURNAME) (Firstname)
IsGuardianLine(l) ==
    LET w == words(l)
    IN  Len(w) = 3 /\ w[1] \in {"Mme", "M."} /\ IsSurname(w[2]) /\ IsFirstname(w[3])

\* C20: when the last line with a name is (title) (SURNAME) (Firstname), nom is
\* the SURNAME token, prenom is the Firstname token and nom_complet is the two
\* joined.
C20_GuardianSurnameThenFirstname ==
    pc = "returned" =>
        \A n \in 1..Len(lines) :
            /\ IsGuardianLine(lines[n])
            /\ \A m \in (n + 1)..Len(lines) : ~NameTrigger(strip(lines[m]))
            => LET w == words(lines[n])
               IN  /\ info.nom = Some(w[2])
                   /\ info.prenom = Some(w[3])
                   /\ info.nom_complet = Some(w[2] \o " " \o w[3])

\* line n of the text writes a name
IsNameLine(n) == NameTrigger(strip(lines[n])) /\ name_parts(strip(lines[n])) # ""

\* the last line of the text that writes a name
LastNameLine == CHOOSE n \in 1..Len(lines) : IsNameLine(n) /\ \A m \in (n + 1)..Len(lines) : ~IsNameLine(m)

\* C21: when several lines match the name condition, nom_complet, nom and prenom
\* of the returned record are those the last matching line gives.
C21_LastNameLineWins ==
    pc = "returned" /\ (\E n \in 1..Len(lines) : IsNameLine(n)) =>
        LET alone == NomComplet(NewInfo(""), strip(lines[LastNameLine]))
        IN  /\ info.nom_complet = alone.nom_complet
            /\ info.nom = alone.nom
            /\ info.prenom = alone.prenom

----------------------------------------------------------------------------
(* Properties of profession, situation and legal status, under SpecStatus *)

\* line n of the text has one of the trigger words of the profession, in any case
IsProfessionLine(n) ==
    Contains(lower(lines[n]), "profession") \/ Contains(lower(lines[n]), "employé")

LastProfessionLine ==
    CHOOSE n \in 1..Len(lines) :
        IsProfessionLine(n) /\ \A m \in (n + 1)..Len(lines) : ~IsProfessionLine(m)

\* what follows the first colon of l, trimmed
AfterFirstColon(l) == strip(From(l, RunEndNot(l, 1, {":"}) + 1))

\* C22: when the last trigger line of the profession has a colon, profession is
\* what follows its first colon, trimmed.
C22_ProfessionAfterColonLastWins ==
    pc = "returned" /\ (\E n \in 1..Len(lines) : IsProfessionLine(n)) =>
        LET l == lines[LastProfessionLine]
        IN  Contains(l, ":") => info.profession = Some(AfterFirstColon(l))

\* the candidates of the marital situation, in order
SituationCandidates == <<"CELIBATAIRE", "MARIE", "DIVORCE", "VEUF", "PACSE">>

\* the first candidate, in the order of the list, that the text contains
FirstCandidateIn(text) ==
    SituationCandidates[CHOOSE k \in 1..Len(SituationCandidates) :
        /\ Contains(text, SituationCandidates[k])
        /\ \A j \in 1..(k - 1) : ~Contains(text, SituationCandidates[j])]

\* C23: situation is the first candidate of the list that the text contains
\* anywhere, whatever the order of the lines.
C23_FirstSituationCandidateWins ==
    pc = "returned" =>
        IF \E k \in 1..Len(SituationCandidates) : Contains(ocr_text, SituationCandidates[k])
        THEN info.situation = Some(FirstCandidateIn(ocr_text))
        ELSE info.situation = None

\* C24: legal is set exactly when the text contains "LEGAL" or "LÉGAL", in any
\* case.
C24_LegalInAnyCase ==
    pc = "returned" =>
        (info.legal # None
            <=> Contains(lower(ocr_text), "legal") \/ Contains(lower(ocr_text), "légal"))

----------------------------------------------------------------------------
(* Properties of the session of the chat application, under SpecSession *)

\* a step of the tabs: a button was pressed, or the run ended without one
TabStep == session_pc = "tabs" /\ session_pc' = "start"

\* the k-th file of the batch had its name loaded when its turn came: the name was
\* in the collection before the batch, or an earlier file of the batch of the same
\* name was added
LoadedAtTurn(before, log, k) ==
    \/ log[k][1] \in DocNamesOf(before)
    \/ \E j \in 1..(k - 1) : log[j] = <<log[k][1], "success">>

\* C25: whatever the uploads, deletions and delete-all, the collection holds only
\* records of status 'success' and no two records of the same name; in a batch, a
\* file is skipped exactly when its name is already in the collection, be it from
\* an earlier batch or from an earlier file of the same batch.
C25_CollectionIsSuccessAndDistinct ==
    /\ [](/\ \A k \in 1..Len(documents) : documents[k].status = "success"
          /\ \A k, m \in 1..Len(documents) :
                documents[k].name = documents[m].name => k = m)
    /\ [][TabStep /\ event' = "upload" =>
            \A k \in 1..Len(status_log') :
                LoadedAtTurn(documents, status_log', k) <=> status_log'[k][2] = "skipped"]_vars

\* a collection of two documents after a batch whose second file repeats the first
C25_Witness ==
    /\ event = "upload"
    /\ status_log = << <<"a.pdf", "success">>, <<"a.pdf", "skipped">> >>
    /\ Len(documents) = 2

\* C26: after every run of setup_api_key, api_key_valid is true only if a client
\* is stored in the session, and the run of an empty key leaves it false.
C26_ValidKeyHasClient ==
    /\ api_key_valid => client # None
    /\ api_key = "" => ~api_key_valid

\* the run of an empty key after the run of a valid one: the client stays stored
C26_Witness == api_key = "" /\ client = Some("sk-1") /\ ~api_key_valid /\ documents # <<>>

\* C28: chat_history gets a pair only by a chat submission made with documents
\* loaded and a question that is not blank; upload and the deletion of one document
\* leave it unchanged; delete-all empties both documents and chat_history.
C28_ChatHistoryFollowsChat ==
    /\ [][chat_history' # chat_history /\ chat_history' # <<>> =>
            /\ TabStep /\ event' = "chat"
            /\ documents # <<>>
            /\ Len(chat_history') = Len(chat_history) + 1
            /\ SubSeq(chat_history', 1, Len(chat_history)) = chat_history
            /\ strip(chat_history'[Len(chat_history')][1]) # ""]_vars
    /\ [][chat_history' # chat_history /\ chat_history' = <<>> =>
            TabStep /\ event' = "delete_all"]_vars
    /\ [][TabStep /\ event' \in {"upload", "delete"} => chat_history' = chat_history]_vars
    /\ [][TabStep /\ event' = "delete_all" =>
            documents' = <<>> /\ chat_history' = <<>>]_vars

\* two pairs in the history after a chat submission
C28_Witness ==
    /\ event = "chat"
    /\ Len(chat_history) = 2
    /\ chat_history[2][1] = "Compare"
    /\ documents # <<>>

----------------------------------------------------------------------------
(* Properties of the full text of a PDF, under SpecPdfOcr *)

\* the indexes of the pages the OCR response returned
ReturnedIndexes == {ocr_pages[k].index : k \in 1..Len(ocr_pages)}

\* the largest index returned
MaxReturnedIndex == CHOOSE m \in ReturnedIndexes : \A n \in ReturnedIndexes : n <= m

\* C29: the full text of process_pdf_ocr is made of max_index + 1 segments, one
\* for each index from 0 to the largest index returned, in that order: the text of
\* a returned page of that index, or the empty string when none was returned; the
\* segments are joined by the page separator; with no page the full text is empty.
C29_FullTextCoversEveryIndex ==
    pdf_result # None /\ pdf_result[1].status = "success" =>
        IF ocr_pages = <<>>
        THEN pdf_result[1].extracted_text = ""
        ELSE /\ Len(full_text_list) = MaxReturnedIndex + 1
             /\ \A n \in 0..MaxReturnedIndex :
                    IF n \in ReturnedIndexes
                    THEN \E k \in 1..Len(ocr_pages) :
                            /\ ocr_pages[k].index = n
                            /\ full_text_list[n + 1] = ocr_pages[k].markdown
                    ELSE full_text_list[n + 1] = ""
             /\ pdf_result[1].extracted_text = join(full_text_list, PageSeparator)

\* a response with pages 2 and 0 only, in that order: index 1 gives an empty segment
C29_Witness ==
    /\ pdf_pc = "processed"
    /\ ocr_pages = <<[index |-> 2, markdown |-> "# B"], [index |-> 0, markdown |-> "Page A"]>>
    /\ pdf_result[1].extracted_text = "Page A\n\n---\n\n\n\n---\n\n# B"

----------------------------------------------------------------------------
(* Properties of the chunk loop of create_pdf_from_text, under SpecChunks *)

\* an iteration of the loop: each one appends a chunk
ChunkIteration == chunk_pc = "loop" /\ Len(text_chunks') = Len(text_chunks) + 1

\* every chunk is non-empty and at most chars_per_page characters long
ChunksFitThePage ==
    \A k \in 1..Len(text_chunks) :
        text_chunks[k] # "" /\ Len(text_chunks[k]) <= chars_per_page

\* C30 as stated: for a non-empty text and a positive chars_per_page the loop
\* terminates, each iteration strictly shortens the remaining text, and every chunk
\* is non-empty and at most chars_per_page characters long.
C30_EveryIterationShortens ==
    /\ []ChunksFitThePage
    /\ [][ChunkIteration => Len(remaining_text') < Len(remaining_text)]_vars
    /\ (chunk_pc = "loop" ~> chunk_pc = "done")

\* C30 amended: for a non-empty text and a positive chars_per_page the loop
\* terminates, each iteration that does not leave the loop strictly shortens the
\* remaining text, the iteration that leaves it takes the whole remaining text as
\* the last chunk and leaves it as it is, and every chunk is non-empty and at most
\* chars_per_page characters long.
C30_ChunkLoopTerminates ==
    /\ []ChunksFitThePage
    /\ [][ChunkIteration /\ chunk_pc' = "loop" =>
            Len(remaining_text') < Len(remaining_text)]_vars
    /\ [][ChunkIteration /\ chunk_pc' # "loop" =>
            /\ text_chunks' = Append(text_chunks, remaining_text)
            /\ remaining_text' = remaining_text]_vars
    /\ (chunk_pc = "loop" ~> chunk_pc = "done")

\* a text of 13 characters on pages of 9: the cut goes back to the space, which is
\* stripped from the rest
C30_Witness ==
    /\ chunk_pc = "done"
    /\ text_arg = "aaaaaaaa aaaa"
    /\ chars_per_page = 9
    /\ text_chunks = <<"aaaaaaaa", "aaaa">>
====
